---------------------------- MODULE Spec2Model ----------------------------
(***************************************************************************)
(* A model of bevy_pong (src/src/main.rs): the startup systems that derive *)
(* the game area and spawn the entities, and the three Update systems      *)
(* move_paddle, check_collisions and accelerate_ball.                      *)
(*                                                                         *)
(* Numbers the program holds as f32 are modelled as IEEE-754 binary32      *)
(* values with round-to-nearest-even arithmetic; durations are integer     *)
(* nanoseconds, as core::time::Duration holds them.                        *)
(***************************************************************************)
EXTENDS Integers, Sequences, FiniteSets, TLC

(***************************************************************************)
(* binary32 arithmetic.  A value is [s, m, e] and stands for s * m * 2^e,  *)
(* with s in {1, -1} and 2^23 <= m < 2^24, or m = 0 for zero.  Every       *)
(* intermediate stays below 2^31.  The magnitudes the program reaches are  *)
(* far from the subnormal and the overflow range, which are not modelled.  *)
(***************************************************************************)
F32Zero == [s |-> 1, m |-> 0, e |-> 0]

RECURSIVE BitLen(_)
BitLen(n) ==
  IF n = 0 THEN 0
  ELSE IF n >= 65536 THEN 16 + BitLen(n \div 65536)
  ELSE IF n >= 256 THEN 8 + BitLen(n \div 256)
  ELSE IF n >= 16 THEN 4 + BitLen(n \div 16)
  ELSE IF n >= 4 THEN 2 + BitLen(n \div 4)
  ELSE IF n >= 2 THEN 2 ELSE 1

\* s * (M + f) * 2^e rounded to 24 significant bits, ties to even, where
\* 0 <= f < 1 and f > 0 exactly when sticky.
RoundPack(s, M, e, sticky) ==
  IF M = 0 THEN F32Zero
  ELSE LET L == BitLen(M)
       IN IF L <= 24
          THEN [s |-> s, m |-> M * 2^(24 - L), e |-> e - (24 - L)]
          ELSE LET k    == L - 24
                   q    == M \div 2^k
                   r    == M % 2^k
                   half == 2^(k - 1)
                   up   == r > half \/ (r = half /\ (sticky \/ q % 2 = 1))
                   q2   == IF up THEN q + 1 ELSE q
               IN IF q2 = 2^24
                  THEN [s |-> s, m |-> 2^23, e |-> e + k + 1]
                  ELSE [s |-> s, m |-> q2, e |-> e + k]

\* u32 as f32
F32FromNat(n) == RoundPack(1, n, 0, FALSE)

F32Neg(a) == IF a.m = 0 THEN a ELSE [a EXCEPT !.s = -a.s]

\* |a| < |b|
F32MagLt(a, b) ==
  IF b.m = 0 THEN FALSE
  ELSE IF a.m = 0 THEN TRUE
  ELSE a.e < b.e \/ (a.e = b.e /\ a.m < b.m)

F32Lt(a, b) ==
  IF a.m = 0 /\ b.m = 0 THEN FALSE
  ELSE IF a.m = 0 THEN b.s = 1
  ELSE IF b.m = 0 THEN a.s = -1
  ELSE IF a.s # b.s THEN a.s = -1
  ELSE IF a.s = 1 THEN F32MagLt(a, b) ELSE F32MagLt(b, a)

F32Le(a, b) == ~F32Lt(b, a)

F32Add(a, b) ==
  IF a.m = 0 THEN b
  ELSE IF b.m = 0 THEN a
  ELSE LET big    == IF F32MagLt(a, b) THEN b ELSE a
           small  == IF F32MagLt(a, b) THEN a ELSE b
           d      == big.e - small.e
           Mb     == big.m * 64
           Ms     == small.m * 64
           q      == IF d > 30 THEN 0 ELSE Ms \div 2^d
           sticky == IF d > 30 THEN TRUE ELSE Ms % 2^d # 0
       IN IF big.s = small.s
          THEN RoundPack(big.s, Mb + q, big.e - 6, sticky)
          ELSE RoundPack(big.s, Mb - q - (IF sticky THEN 1 ELSE 0),
                         big.e - 6, sticky)

F32Sub(a, b) == F32Add(a, F32Neg(b))

F32Mul(a, b) ==
  IF a.m = 0 \/ b.m = 0 THEN F32Zero
  ELSE LET a1     == a.m \div 4096
           a0     == a.m % 4096
           b1     == b.m \div 4096
           b0     == b.m % 4096
           mid    == a1 * b0 + a0 * b1
           lowSum == (mid % 4096) * 4096 + a0 * b0
           lo     == lowSum % 16777216
           hi     == a1 * b1 + mid \div 4096 + lowSum \div 16777216
       IN RoundPack(a.s * b.s, hi * 64 + lo \div 262144, a.e + b.e + 18,
                    lo % 262144 # 0)

\* <<quotient, remainder>> of num * 2^n by den, for num < den < 2^24
RECURSIVE LongDiv(_, _, _, _)
LongDiv(q, r, den, n) ==
  IF n = 0 THEN <<q, r>>
  ELSE IF 2 * r >= den
       THEN LongDiv(2 * q + 1, 2 * r - den, den, n - 1)
       ELSE LongDiv(2 * q, 2 * r, den, n - 1)

\* a / b, b nonzero
F32Div(a, b) ==
  IF a.m = 0 THEN F32Zero
  ELSE LET qr == LongDiv(a.m \div b.m, a.m % b.m, b.m, 26)
       IN RoundPack(a.s * b.s, qr[1], a.e - b.e - 26, qr[2] # 0)

\* <<root, remainder>> of the square root of m * 4^14, bit by bit: j counts
\* the pairs of bits of m still to take, then 14 pairs of zeros.
RECURSIVE SqrtDigits(_, _, _, _)
SqrtDigits(root, rem, m, j) ==
  IF j < -14 THEN <<root, rem>>
  ELSE LET r     == rem * 4 + (IF j >= 0 THEN (m \div 4^j) % 4 ELSE 0)
           trial == 4 * root + 1
       IN IF r >= trial
          THEN SqrtDigits(2 * root + 1, r - trial, m, j - 1)
          ELSE SqrtDigits(2 * root, r, m, j - 1)

\* sqrt(a), a not negative
F32Sqrt(a) ==
  IF a.m = 0 THEN F32Zero
  ELSE LET m  == IF a.e % 2 = 0 THEN a.m ELSE 2 * a.m
           e  == IF a.e % 2 = 0 THEN a.e ELSE a.e - 1
           rr == SqrtDigits(0, 0, m, 12)
       IN RoundPack(1, rr[1], e \div 2 - 14, rr[2] # 0)


(***************************************************************************)
(* Program constants.                                                      *)
(***************************************************************************)
\* Timer::from_seconds(0.1, ..): Duration::from_secs_f32(0.1f32), the f32
\* nearest to 0.1 being 0.100000001490116..., in nanoseconds
TimerDurationNanos == 100000001
NanosPerSec == 1000000000

ACCELERATION_FACTOR == F32Div(F32FromNat(1001), F32FromNat(1000))

padding == F32FromNat(20)
paddle_width == F32FromNat(10)
paddle_height == F32FromNat(50)
border_thickness == F32FromNat(20)
PaddleSpeed == F32FromNat(300)
ClampMargin == F32FromNat(30)
BallRadius == F32FromNat(10)
F32Two == F32FromNat(2)
F32One == F32FromNat(1)
F32Half == F32Div(F32One, F32Two)
F32MinusOne == F32Neg(F32FromNat(1))
InitialVelocity == [x |-> F32FromNat(200), y |-> F32FromNat(200)]

StartupSystems ==
  {"setup_game_area", "setup_camera", "spawn_local_paddle", "spawn_border",
   "spawn_ball"}
UpdateSystems == {"move_paddle", "check_collisions", "accelerate_ball"}

(***************************************************************************)
(* Bounds and inputs of the model.                                         *)
(***************************************************************************)
MaxTicks == 2

\* Logical sizes of the primary window when Startup runs: the default
\* 1280x720, the smallest size the window's default resize constraints allow,
\* 180x120, and 90x90, a surface lower than 100 units, which nothing in the
\* program excludes.
WindowSizes == {<<1280, 720>>, <<180, 120>>, <<90, 90>>}
WindowOf(w, h) == [width |-> F32FromNat(w), height |-> F32FromNat(h)]
Windows == {WindowOf(wh[1], wh[2]) : wh \in WindowSizes}

\* Tick deltas in nanoseconds: the first frame's 0, a 16 ms frame, 0.1 s, and
\* 0.25 s, the largest delta the virtual clock hands to Update.
Deltas == {0, 16000000, 100000000, 250000000}

\* CollisionStarted(e1, e2) is a pair of entities: the Ball and a Border, the
\* Paddle and the Ball, no Ball, and the Ball in both places.  The physics
\* engine reports contacts between two distinct colliders; check_collisions
\* takes any pair.
BallBorder == <<"ball", "border_left">>
PaddleBall == <<"paddle", "ball">>
PaddleBorder == <<"paddle", "border_top">>
BallBall == <<"ball", "ball">>

\* The events one tick delivers: none, one of each kind, and batches of two
\* and three.
EventBatches ==
  {<<>>, <<BallBorder>>, <<PaddleBorder>>, <<BallBall>>, <<PaddleBall, BallBorder>>,
   <<BallBorder, PaddleBall, BallBorder>>}

VARIABLES
  primaryWindow,  \* the windows matching Query<&Window, With<PrimaryWindow>>
  panicked,       \* a system panicked: the app is gone
  startupRan,     \* the Startup systems that have run
  gameArea,       \* the GameArea resource: <<>> while absent, else <<[width, height]>>
  commands,       \* system -> the changes it queued in Commands, not yet applied
  entities,       \* entity -> [kind, side]
  transform,      \* entity -> [x, y], the Transform translation
  collider,       \* entity -> [shape, a, b]
  velocity,       \* entity -> [x, y], the LinearVelocity of the Ball entities
  timer,          \* AccelerationTimer: [elapsed, times_finished_this_tick]
  delta,          \* Time::delta() of the current tick, nanoseconds
  pressed,        \* the actions ActionState reports pressed in the current tick
  events,         \* the CollisionStarted events check_collisions has yet to read
  pending,        \* the Update systems still to run in the current tick
  pre,            \* [transform, velocity, timer, events] when the current tick began
  ticks,          \* ticks begun
  totalNanos,     \* the sum of the tick deltas
  longTick,       \* some tick's delta exceeded the timer's duration
  overstep,       \* Time<Fixed>: time accumulated towards the next fixed step, ns
  rebounds,       \* rebounds of the Ball in the physics steps so far
  firings         \* ticks on which accelerate_ball multiplied the velocity

vars ==
  <<primaryWindow, panicked, startupRan, gameArea, commands, entities, transform, collider,
    velocity, timer, delta, pressed, events, pending, pre, ticks, totalNanos,
    longTick, overstep, rebounds, firings>>

world == <<entities, transform, collider, velocity>>
tickVars ==
  <<delta, pressed, events, pending, pre, ticks, totalNanos, longTick, overstep,
    rebounds>>

EmptyMap == [id \in {} |-> 0]

OfKind(k) == {id \in DOMAIN entities : entities[id].kind = k}

Rectangle(w, h) == [shape |-> "rectangle", a |-> w, b |-> h]
Circle(r) == [shape |-> "circle", a |-> r, b |-> r]

\* The state before Startup, the entities matching
\* Query<&Window, With<PrimaryWindow>> being one of the given sets.
InitWithWindowSets(windowSets) ==
  /\ primaryWindow \in windowSets
  /\ panicked = FALSE
  /\ startupRan = {}
  /\ gameArea = <<>>
  /\ commands = EmptyMap
  /\ entities = EmptyMap
  /\ transform = EmptyMap
  /\ collider = EmptyMap
  /\ velocity = EmptyMap
  /\ timer = [elapsed |-> 0, times_finished_this_tick |-> 0]
  /\ delta = 0
  /\ pressed = {}
  /\ events = <<>>
  /\ pending = {}
  /\ pre = [transform |-> EmptyMap, velocity |-> EmptyMap,
            timer |-> [elapsed |-> 0, times_finished_this_tick |-> 0],
            events |-> <<>>, panicked |-> FALSE]
  /\ ticks = 0
  /\ totalNanos = 0
  /\ longTick = FALSE
  /\ overstep = 0
  /\ rebounds = 0
  /\ firings = 0

InitWith(windows) == InitWithWindowSets({{w} : w \in windows})

Init == InitWith(Windows)

(***************************************************************************)
(* Startup.  A system's Commands are queued when it runs and applied at    *)
(* the next sync point of the schedule: the one between the two setup      *)
(* systems and the spawners ordered after them, and the end of Startup.    *)
(***************************************************************************)
\* What one system queued: insert_resource(GameArea) as area, spawn(..) as
\* the entities with their components.
Command(area, ents, trs, cols, vels) ==
  [area |-> area, entities |-> ents, transform |-> trs, collider |-> cols,
   velocity |-> vels]

Queue(system, command) == commands' = commands @@ (system :> command)

\* The components of one kind that the queued spawns carry
Queued(field) ==
  [id \in UNION {DOMAIN commands[sys][field] : sys \in DOMAIN commands} |->
     LET sys == CHOOSE q \in DOMAIN commands : id \in DOMAIN commands[q][field]
     IN commands[sys][field][id]]

QueuedArea ==
  IF \E sys \in DOMAIN commands : commands[sys].area # <<>>
  THEN (CHOOSE a \in {commands[sys].area : sys \in DOMAIN commands} : a # <<>>)
  ELSE gameArea

\* the padding taken off once instead of on both sides
GameAreaOfSinglePadding(window) ==
  [width  |-> F32Sub(window.width, padding),
   height |-> F32Sub(window.height, padding)]

GameAreaOf(window) ==
  [width  |-> F32Sub(window.width, F32Mul(padding, F32Two)),
   height |-> F32Sub(window.height, F32Mul(padding, F32Two))]

\* a missing window skipped with an early return instead of a panic
setup_game_area_or_return ==
  /\ ~panicked
  /\ "setup_game_area" \notin startupRan
  /\ startupRan' = startupRan \cup {"setup_game_area"}
  /\ commands' = IF Cardinality(primaryWindow) = 1
                 THEN commands @@ ("setup_game_area" :>
                        Command(<<GameAreaOf(CHOOSE w \in primaryWindow : TRUE)>>,
                                EmptyMap, EmptyMap, EmptyMap, EmptyMap))
                 ELSE commands
  /\ UNCHANGED <<primaryWindow, panicked, gameArea, world, timer, tickVars, firings>>

\* window_query.single() panics unless exactly one window matches
setup_game_area ==
  /\ ~panicked
  /\ "setup_game_area" \notin startupRan
  /\ startupRan' = startupRan \cup {"setup_game_area"}
  /\ IF Cardinality(primaryWindow) = 1
     THEN /\ Queue("setup_game_area",
                   Command(<<GameAreaOf(CHOOSE w \in primaryWindow : TRUE)>>,
                           EmptyMap, EmptyMap, EmptyMap, EmptyMap))
          /\ UNCHANGED panicked
     ELSE /\ panicked' = TRUE
          /\ UNCHANGED commands
  /\ UNCHANGED <<primaryWindow, gameArea, world, timer, tickVars, firings>>

CameraEntity == "camera" :> [kind |-> "Camera", side |-> "None"]

setup_camera ==
  /\ ~panicked
  /\ "setup_camera" \notin startupRan
  /\ startupRan' = startupRan \cup {"setup_camera"}
  /\ Queue("setup_camera", Command(<<>>, CameraEntity, EmptyMap, EmptyMap, EmptyMap))
  /\ UNCHANGED <<primaryWindow, panicked, gameArea, world, timer, tickVars, firings>>

\* The sync points of Startup: every system scheduled before the point has
\* run, and the queued commands are applied to the world.
AtSyncPoint ==
  \/ startupRan = {"setup_game_area", "setup_camera"}
  \/ startupRan = StartupSystems

apply_deferred ==
  /\ ~panicked
  /\ AtSyncPoint
  /\ commands # EmptyMap
  /\ gameArea' = QueuedArea
  /\ entities' = entities @@ Queued("entities")
  /\ transform' = transform @@ Queued("transform")
  /\ collider' = collider @@ Queued("collider")
  /\ velocity' = velocity @@ Queued("velocity")
  /\ commands' = EmptyMap
  /\ UNCHANGED <<primaryWindow, panicked, startupRan, timer, tickVars, firings>>

\* the spawners ordered after setup_camera only
SpawnersMayRunAfterCamera == "setup_camera" \in startupRan

\* (spawn_local_paddle, spawn_border, spawn_ball).after(setup_game_area).after(setup_camera):
\* both have run and the sync point after them has applied their commands
SpawnersMayRun ==
  /\ {"setup_game_area", "setup_camera"} \subseteq startupRan
  /\ DOMAIN commands \cap {"setup_game_area", "setup_camera"} = {}

PaddleX(area) ==
  F32Add(F32Neg(F32Div(area.width, F32Two)), F32Mul(paddle_width, F32Two))

PaddleEntity == "paddle" :> [kind |-> "Paddle", side |-> "None"]
PaddleTransform(area, y) == "paddle" :> [x |-> PaddleX(area), y |-> y]
PaddleCollider == "paddle" :> Rectangle(paddle_width, paddle_height)

\* game_area: Res<GameArea> panics when the resource is absent
spawn_local_paddle ==
  /\ ~panicked
  /\ SpawnersMayRun
  /\ "spawn_local_paddle" \notin startupRan
  /\ startupRan' = startupRan \cup {"spawn_local_paddle"}
  /\ IF gameArea = <<>>
     THEN /\ panicked' = TRUE
          /\ UNCHANGED commands
     ELSE /\ Queue("spawn_local_paddle",
                   Command(<<>>, PaddleEntity, PaddleTransform(gameArea[1], F32Zero),
                           PaddleCollider, EmptyMap))
          /\ UNCHANGED panicked
  /\ UNCHANGED <<primaryWindow, gameArea, world, timer, tickVars, firings>>

BallEntity == "ball" :> [kind |-> "Ball", side |-> "None"]
BallTransform == "ball" :> [x |-> F32Zero, y |-> F32Zero]
BallCollider == "ball" :> Circle(BallRadius)
BallVelocity == "ball" :> InitialVelocity

spawn_ball ==
  /\ ~panicked
  /\ SpawnersMayRun
  /\ "spawn_ball" \notin startupRan
  /\ startupRan' = startupRan \cup {"spawn_ball"}
  /\ Queue("spawn_ball",
           Command(<<>>, BallEntity, BallTransform, BallCollider, BallVelocity))
  /\ UNCHANGED <<primaryWindow, panicked, gameArea, world, timer, tickVars, firings>>

\* the Bottom border left at the default side, Left
BordersOfBottomUntagged(area) ==
  LET half_width       == F32Div(area.width, F32Two)
      half_height      == F32Div(area.height, F32Two)
      vertical_height  == F32Add(area.height, border_thickness)
      horizontal_width == F32Sub(area.width, border_thickness)
  IN ("border_left" :> [side |-> "Left", x |-> F32Neg(half_width), y |-> F32Zero,
                        w |-> border_thickness, h |-> vertical_height])
     @@ ("border_right" :> [side |-> "Right", x |-> half_width, y |-> F32Zero,
                            w |-> border_thickness, h |-> vertical_height])
     @@ ("border_top" :> [side |-> "Top", x |-> F32Zero, y |-> half_height,
                          w |-> horizontal_width, h |-> border_thickness])
     @@ ("border_bottom" :> [side |-> "Left", x |-> F32Zero, y |-> F32Neg(half_height),
                             w |-> horizontal_width, h |-> border_thickness])

\* The four borders of spawn_border: entity -> [side, x, y, w, h]
BordersOf(area) ==
  LET half_width       == F32Div(area.width, F32Two)
      half_height      == F32Div(area.height, F32Two)
      vertical_height  == F32Add(area.height, border_thickness)
      horizontal_width == F32Sub(area.width, border_thickness)
  IN ("border_left" :> [side |-> "Left", x |-> F32Neg(half_width), y |-> F32Zero,
                        w |-> border_thickness, h |-> vertical_height])
     @@ ("border_right" :> [side |-> "Right", x |-> half_width, y |-> F32Zero,
                            w |-> border_thickness, h |-> vertical_height])
     @@ ("border_top" :> [side |-> "Top", x |-> F32Zero, y |-> half_height,
                          w |-> horizontal_width, h |-> border_thickness])
     @@ ("border_bottom" :> [side |-> "Bottom", x |-> F32Zero, y |-> F32Neg(half_height),
                             w |-> horizontal_width, h |-> border_thickness])

BorderEntities(area) ==
  LET b == BordersOf(area)
  IN [id \in DOMAIN b |-> [kind |-> "Border", side |-> b[id].side]]
BorderTransforms(area) ==
  LET b == BordersOf(area)
  IN [id \in DOMAIN b |-> [x |-> b[id].x, y |-> b[id].y]]
BorderColliders(area) ==
  LET b == BordersOf(area)
  IN [id \in DOMAIN b |-> Rectangle(b[id].w, b[id].h)]

spawn_border ==
  /\ ~panicked
  /\ SpawnersMayRun
  /\ "spawn_border" \notin startupRan
  /\ startupRan' = startupRan \cup {"spawn_border"}
  /\ IF gameArea = <<>>
     THEN /\ panicked' = TRUE
          /\ UNCHANGED commands
     ELSE /\ Queue("spawn_border",
                   Command(<<>>, BorderEntities(gameArea[1]),
                           BorderTransforms(gameArea[1]), BorderColliders(gameArea[1]),
                           EmptyMap))
          /\ UNCHANGED panicked
  /\ UNCHANGED <<primaryWindow, gameArea, world, timer, tickVars, firings>>

StartupDone == startupRan = StartupSystems
\* Startup has run to its end, the last commands applied
Running == StartupDone /\ commands = EmptyMap /\ ~panicked

\* The state Startup leaves for the given window, with the Paddle at height y
\* and no tick begun.
AfterStartup(window, y) ==
  LET area == GameAreaOf(window)
  IN /\ primaryWindow = {window}
     /\ panicked = FALSE
     /\ startupRan = StartupSystems
     /\ gameArea = <<area>>
     /\ commands = EmptyMap
     /\ entities = CameraEntity @@ PaddleEntity @@ BallEntity @@ BorderEntities(area)
     /\ transform = PaddleTransform(area, y) @@ BallTransform @@ BorderTransforms(area)
     /\ collider = PaddleCollider @@ BallCollider @@ BorderColliders(area)
     /\ velocity = BallVelocity
     /\ timer = [elapsed |-> 0, times_finished_this_tick |-> 0]
     /\ delta = 0
     /\ pressed = {}
     /\ events = <<>>
     /\ pending = {}
     /\ pre = [transform |-> transform, velocity |-> velocity, timer |-> timer,
               events |-> <<>>, panicked |-> FALSE]
     /\ ticks = 0
     /\ totalNanos = 0
     /\ longTick = FALSE
     /\ overstep = 0
     /\ rebounds = 0
     /\ firings = 0

(***************************************************************************)
(* Update: one tick.  The engine advances Time, refreshes the ActionState  *)
(* and delivers the physics engine's CollisionStarted events, then runs    *)
(* the three Update systems, which no ordering constraint relates.         *)
(***************************************************************************)
Snapshot ==
  [transform |-> transform, velocity |-> velocity, timer |-> timer, events |-> events,
   panicked |-> panicked]

\* Duration::as_secs_f32: (secs as f32) + (nanos as f32) / (NANOS_PER_SEC as f32)
AsSecsF32(ns) ==
  F32Add(F32FromNat(ns \div NanosPerSec),
         F32Div(F32FromNat(ns % NanosPerSec), F32FromNat(NanosPerSec)))

\* The physics of PhysicsPlugins runs in the fixed schedule, before Update:
\* Time<Fixed> accumulates the frame's delta and one step of 1/64 s runs for
\* every whole timestep accumulated.
FixedTimestepNanos == 15625000
FixedStepSecs == F32Div(F32One, F32FromNat(64))

\* The absolute value of an f32.
F32Abs(a) == IF a.m = 0 THEN F32Zero ELSE [a EXCEPT !.s = 1]

\* The bodies the Ball meets: the rectangles of the Borders, static, and of
\* the Paddle, kinematic with no velocity; the physics moves none.
Obstacles == OfKind("Border") \cup OfKind("Paddle")

\* The rectangle of half extents hw and hh about the point p.
Extent(p, hw, hh) ==
  [left   |-> F32Sub(p.x, hw),
   right  |-> F32Add(p.x, hw),
   bottom |-> F32Sub(p.y, hh),
   top    |-> F32Add(p.y, hh)]

\* The rectangle of an obstacle: Collider::rectangle(a, b) holds the half
\* extents a * 0.5 and b * 0.5 about its Transform.
Box(o) ==
  Extent(transform[o], F32Mul(collider[o].a, F32Half), F32Mul(collider[o].b, F32Half))

Boxes == {Box(o) : o \in Obstacles}

\* The point of [lo, hi] nearest to c.
Nearest(c, lo, hi) == IF F32Lt(c, lo) THEN lo ELSE IF F32Lt(hi, c) THEN hi ELSE c

NoContact == [hit |-> FALSE, n |-> [x |-> F32Zero, y |-> F32Zero], depth |-> F32Zero]

\* The contact of a circle of the Ball's radius whose centre is dist away from
\* a rectangle, in the direction n from it: they overlap when dist is less
\* than the radius, as deep as the radius reaches beyond dist.
Touching(n, dist) ==
  IF F32Lt(dist, BallRadius)
  THEN [hit |-> TRUE, n |-> n, depth |-> F32Sub(BallRadius, dist)]
  ELSE NoContact

\* Of the four sides of a rectangle, each with its outward normal n and its
\* distance d from a point inside, the nearest one, the first of them if
\* several are as near.
NearestSide(sides) ==
  sides[CHOOSE i \in 1..4 :
          \A j \in 1..4 : IF j < i THEN F32Lt(sides[i].d, sides[j].d)
                          ELSE F32Le(sides[i].d, sides[j].d)]

\* The contact of a Ball whose centre c is inside a rectangle or on its edge:
\* the normal is that of the nearest side, left, right, bottom or top, and the
\* circle reaches the radius deeper than the centre.
Inside(c, box) ==
  LET side == NearestSide(<<[n |-> [x |-> F32MinusOne, y |-> F32Zero], d |-> F32Sub(c.x, box.left)],
                            [n |-> [x |-> F32One, y |-> F32Zero], d |-> F32Sub(box.right, c.x)],
                            [n |-> [x |-> F32Zero, y |-> F32MinusOne], d |-> F32Sub(c.y, box.bottom)],
                            [n |-> [x |-> F32Zero, y |-> F32One], d |-> F32Sub(box.top, c.y)]>>)
  IN [hit |-> TRUE, n |-> side.n, depth |-> F32Add(BallRadius, side.d)]

\* The contact of a Ball centred at c with a rectangle, c being (dx, dy) away
\* from the nearest point of the rectangle.  Beside a side the normal is that
\* of the side; off a corner it points from the corner to c, which is at
\* least as far from the corner as |dx| and as |dy|.
ContactAt(c, box, dx, dy) ==
  IF dx.m = 0 /\ dy.m = 0 THEN Inside(c, box)
  ELSE IF dy.m = 0
  THEN Touching([x |-> IF dx.s = 1 THEN F32One ELSE F32MinusOne, y |-> F32Zero], F32Abs(dx))
  ELSE IF dx.m = 0
  THEN Touching([x |-> F32Zero, y |-> IF dy.s = 1 THEN F32One ELSE F32MinusOne], F32Abs(dy))
  ELSE IF ~(F32MagLt(dx, BallRadius) /\ F32MagLt(dy, BallRadius)) THEN NoContact
  ELSE CHOOSE con \in {Touching([x |-> F32Div(dx, dist), y |-> F32Div(dy, dist)], dist) :
                         dist \in {F32Sqrt(F32Add(F32Mul(dx, dx), F32Mul(dy, dy)))}} : TRUE

\* The contact of a Ball centred at c with a rectangle: whether the circle
\* overlaps it, the unit normal from the nearest point of the rectangle to c,
\* and how deep the circle reaches.
Contact(c, box) ==
  ContactAt(c, box, F32Sub(c.x, Nearest(c.x, box.left, box.right)),
            F32Sub(c.y, Nearest(c.y, box.bottom, box.top)))

\* The vector n scaled by k.
Scaled(n, k) == [x |-> F32Mul(k, n.x), y |-> F32Mul(k, n.y)]

\* What a contact of normal n and the given depth does to a Ball whose
\* velocity has the part vn along n: moving into the obstacle (vn < 0), the
\* Ball leaves with that part inverted (restitution 1, friction 0), turned
\* back by twice the depth when it was clear of the obstacle before the step;
\* otherwise it is only moved out of the obstacle.
Respond(n, vn, depth, was) ==
  IF vn.m # 0 /\ vn.s = -1
  THEN [dv   |-> Scaled(n, F32Neg(F32Mul(F32Two, vn))),
        dp   |-> Scaled(n, IF was THEN depth ELSE F32Mul(F32Two, depth)),
        hits |-> 1]
  ELSE [dv   |-> [x |-> F32Zero, y |-> F32Zero],
        dp   |-> Scaled(n, depth),
        hits |-> 0]

\* What the contact con does to a Ball of velocity vel; was tells that the
\* Ball overlapped the obstacle already before the step.
Response(vel, con, was) ==
  Respond(con.n, F32Add(F32Mul(vel.x, con.n.x), F32Mul(vel.y, con.n.y)), con.depth, was)

\* The Ball [pos, vel, vel0, hits] after the response r.
Answer(ball, r) ==
  [pos  |-> [x |-> F32Add(ball.pos.x, r.dp.x), y |-> F32Add(ball.pos.y, r.dp.y)],
   vel  |-> [x |-> F32Add(ball.vel.x, r.dv.x), y |-> F32Add(ball.vel.y, r.dv.y)],
   vel0 |-> ball.vel0,
   hits |-> ball.hits + r.hits]

\* A Ball that stood at `at` and moved to `to`, after the contacts with the
\* given obstacles: [pos, vel, vel0, hits].
RECURSIVE Resolve(_, _, _, _)
Resolve(ball, at, to, boxes) ==
  IF boxes = {} THEN ball
  ELSE LET box == CHOOSE b \in boxes : TRUE
       IN CHOOSE end \in {Resolve(b, at, to, boxes \ {box}) :
                            b \in {Answer(ball, Response(ball.vel0, Contact(to, box),
                                                         Contact(at, box).hit))}} : TRUE

\* Where a Ball at `at` with velocity vel is after one fixed step in free
\* flight.
Moved(at, vel) ==
  [x |-> F32Add(at.x, F32Mul(vel.x, FixedStepSecs)),
   y |-> F32Add(at.y, F32Mul(vel.y, FixedStepSecs))]

\* A Ball after one fixed step on st = [transform, velocity, rebounds]: the
\* dynamic body (gravity 0, rotation locked) moves by its velocity and answers
\* the contacts it is in where it arrives.
BallStep(st, id, boxes) ==
  CHOOSE b \in {Resolve([pos |-> to, vel |-> st.velocity[id], vel0 |-> st.velocity[id],
                         hits |-> 0],
                        st.transform[id], to, boxes) :
                  to \in {Moved(st.transform[id], st.velocity[id])}} : TRUE

\* st with the Transform and the LinearVelocity of one Ball as b, its
\* BallStep, gives them, and its rebounds counted.
MoveBall(st, id, b) ==
  [transform |-> [st.transform EXCEPT ![id] = b.pos],
   velocity  |-> [st.velocity EXCEPT ![id] = b.vel],
   rebounds  |-> st.rebounds + b.hits]

\* One fixed step: the Balls of ids moved, one after the other.
RECURSIVE PhysicsStep(_, _, _)
PhysicsStep(st, ids, boxes) ==
  IF ids = {} THEN st
  ELSE LET id == CHOOSE i \in ids : TRUE
       IN PhysicsStep(MoveBall(st, id, BallStep(st, id, boxes)), ids \ {id}, boxes)

\* n fixed steps, each on the value the one before left.
RECURSIVE PhysicsSteps(_, _, _)
PhysicsSteps(n, st, boxes) ==
  IF n = 0 THEN st
  ELSE CHOOSE end \in {PhysicsSteps(n - 1, PhysicsStep(s, DOMAIN s.velocity, boxes), boxes) :
                         s \in {st}} : TRUE

\* A tick that draws its inputs from the given sets and schedules the given
\* systems: the clock, the fixed steps of the physics, the input state and
\* the collision events of the frame, up to the start of Update.
BeginTickWith(systems, deltas, actionSets, batches, maxTicks) ==
  /\ Running
  /\ pending = {}
  /\ ticks < maxTicks
  /\ \E boxes \in {Boxes} :
        \E dt \in deltas :
          \E st \in {PhysicsSteps((overstep + dt) \div FixedTimestepNanos,
                                   [transform |-> transform, velocity |-> velocity,
                                    rebounds |-> rebounds],
                                   boxes)} :
             /\ delta' = dt
             /\ overstep' = (overstep + dt) % FixedTimestepNanos
             /\ transform' = st.transform
             /\ velocity' = st.velocity
             /\ rebounds' = st.rebounds
             /\ totalNanos' = totalNanos + dt
             /\ longTick' = (longTick \/ dt > TimerDurationNanos)
             /\ \E acts \in actionSets, evs \in batches :
                  /\ pressed' = acts
                  /\ events' = evs
                  /\ pre' = [transform |-> transform', velocity |-> velocity',
                             timer |-> timer, events |-> evs, panicked |-> FALSE]
  /\ pending' = systems
  /\ ticks' = ticks + 1
  /\ UNCHANGED <<primaryWindow, panicked, startupRan, gameArea, commands, entities,
                 collider, timer, firings>>

BeginTick ==
  BeginTickWith(UpdateSystems, Deltas, SUBSET {"Up", "Down"}, EventBatches, MaxTicks)

\* Down tested in an else branch: Up wins when both are pressed
DirectionUpWins(acts) ==
  IF "Up" \in acts THEN F32One
  ELSE IF "Down" \in acts THEN F32MinusOne ELSE F32Zero

Direction(acts) ==
  LET d0 == F32Zero
      d1 == IF "Up" \in acts THEN F32Add(d0, F32One) ELSE d0
  IN IF "Down" \in acts THEN F32Sub(d1, F32One) ELSE d1

MaxY(area) == F32Sub(F32Div(area.height, F32Two), ClampMargin)

NewY(y, acts, dt) ==
  F32Add(y, F32Mul(F32Mul(Direction(acts), AsSecsF32(dt)), PaddleSpeed))

\* f32::clamp asserts min <= max
ClampPanics(lo, hi) == ~F32Le(lo, hi)

F32Clamp(x, lo, hi) ==
  IF F32Lt(x, lo) THEN lo ELSE IF F32Lt(hi, x) THEN hi ELSE x

MovePaddleY(y, acts, dt, area) ==
  F32Clamp(NewY(y, acts, dt), F32Neg(MaxY(area)), MaxY(area))

\* the whole translation written, x taking the new y as well
MovePaddleFnBothAxes(tr, acts, dt, area) ==
  [id \in DOMAIN tr |->
     IF entities[id].kind = "Paddle"
     THEN [x |-> MovePaddleY(tr[id].y, acts, dt, area),
           y |-> MovePaddleY(tr[id].y, acts, dt, area)]
     ELSE tr[id]]

MovePaddleFn(tr, acts, dt, area) ==
  [id \in DOMAIN tr |->
     IF entities[id].kind = "Paddle"
     THEN [tr[id] EXCEPT !.y = MovePaddleY(tr[id].y, acts, dt, area)]
     ELSE tr[id]]

move_paddle ==
  /\ ~panicked
  /\ "move_paddle" \in pending
  /\ pending' = pending \ {"move_paddle"}
  /\ IF OfKind("Paddle") # {}
        /\ ClampPanics(F32Neg(MaxY(gameArea[1])), MaxY(gameArea[1]))
     THEN /\ panicked' = TRUE
          /\ UNCHANGED transform
     ELSE /\ transform' = MovePaddleFn(transform, pressed, delta, gameArea[1])
          /\ UNCHANGED panicked
  /\ UNCHANGED <<primaryWindow, startupRan, gameArea, commands, entities, collider, velocity,
                 timer, delta, pressed, events, pre, ticks, totalNanos, longTick,
                 overstep, rebounds, firings>>

\* ball_query.get(e).is_ok()
IsBall(e) == e \in DOMAIN velocity /\ entities[e].kind = "Ball"

\* every event taken as a collision of the Ball
QualifiesAny(ev) == TRUE

Qualifies(ev) == IsBall(ev[1]) /\ IsBall(ev[2])

\* the horizontal component cancelled instead of inverted
FlipBallsCancel(vel) ==
  [id \in DOMAIN vel |->
     IF entities[id].kind = "Ball"
     THEN [vel[id] EXCEPT !.x = F32Sub(vel[id].x, vel[id].x)]
     ELSE vel[id]]

\* for mut ball_velocity in &mut ball_query { ball_velocity.0.x *= -1.; }
FlipBalls(vel) ==
  [id \in DOMAIN vel |->
     IF entities[id].kind = "Ball"
     THEN [vel[id] EXCEPT !.x = F32Mul(vel[id].x, F32MinusOne)]
     ELSE vel[id]]

RECURSIVE CheckCollisionsFn(_, _)
CheckCollisionsFn(vel, evs) ==
  IF evs = <<>> THEN vel
  ELSE CheckCollisionsFn(IF Qualifies(Head(evs)) THEN FlipBalls(vel) ELSE vel,
                         Tail(evs))

check_collisions ==
  /\ ~panicked
  /\ "check_collisions" \in pending
  /\ pending' = pending \ {"check_collisions"}
  /\ velocity' = CheckCollisionsFn(velocity, events)
  /\ events' = <<>>
  /\ UNCHANGED <<primaryWindow, panicked, startupRan, gameArea, commands, entities, transform,
                 collider, timer, delta, pressed, pre, ticks, totalNanos, longTick,
                 overstep, rebounds, firings>>

\* a timer that restarts from zero when it finishes, dropping the excess
TimerTickResetOnFinish(t, dt) ==
  LET elapsed == t.elapsed + dt
  IN IF elapsed >= TimerDurationNanos
     THEN [elapsed |-> 0, times_finished_this_tick |-> elapsed \div TimerDurationNanos]
     ELSE [elapsed |-> elapsed, times_finished_this_tick |-> 0]

\* a TimerMode::Once timer: elapsed stops at the duration
TimerTickOnce(t, dt) ==
  LET elapsed == t.elapsed + dt
  IN IF elapsed >= TimerDurationNanos
     THEN [elapsed |-> TimerDurationNanos,
           times_finished_this_tick |-> IF t.elapsed < TimerDurationNanos THEN 1 ELSE 0]
     ELSE [elapsed |-> elapsed, times_finished_this_tick |-> 0]

\* Timer::tick of a TimerMode::Repeating timer that is not paused
TimerTick(t, dt) ==
  LET elapsed == t.elapsed + dt
  IN IF elapsed >= TimerDurationNanos
     THEN [elapsed |-> elapsed % TimerDurationNanos,
           times_finished_this_tick |-> elapsed \div TimerDurationNanos]
     ELSE [elapsed |-> elapsed, times_finished_this_tick |-> 0]

\* Timer::just_finished
JustFinished(t) == t.times_finished_this_tick > 0

\* only the x component scaled
AccelerateXOnly(v) == [x |-> F32Mul(v.x, ACCELERATION_FACTOR), y |-> v.y]

\* a fixed increment added instead of a scaling
AccelerateAdditive(v) ==
  [x |-> F32Add(v.x, F32Sub(ACCELERATION_FACTOR, F32One)),
   y |-> F32Add(v.y, F32Sub(ACCELERATION_FACTOR, F32One))]

\* velocity.0 *= ACCELERATION_FACTOR
Accelerate(v) ==
  [x |-> F32Mul(v.x, ACCELERATION_FACTOR), y |-> F32Mul(v.y, ACCELERATION_FACTOR)]

AccelerateBalls(vel) ==
  [id \in DOMAIN vel |->
     IF entities[id].kind = "Ball" THEN Accelerate(vel[id]) ELSE vel[id]]

\* one multiplication for every period that elapsed in the tick
AccelerateEveryPeriod(vel, t) ==
  IF t.times_finished_this_tick >= 2 THEN AccelerateBalls(AccelerateBalls(vel))
  ELSE IF JustFinished(t) THEN AccelerateBalls(vel) ELSE vel

\* the velocity scaled on every tick, the timer ignored
AccelerateAlways(vel, t) == AccelerateBalls(vel)

AccelerateBallFn(vel, t) == IF JustFinished(t) THEN AccelerateBalls(vel) ELSE vel

accelerate_ball ==
  /\ ~panicked
  /\ "accelerate_ball" \in pending
  /\ pending' = pending \ {"accelerate_ball"}
  /\ timer' = TimerTick(timer, delta)
  /\ velocity' = AccelerateBallFn(velocity, timer')
  /\ firings' = IF JustFinished(timer') THEN firings + 1 ELSE firings
  /\ UNCHANGED <<primaryWindow, panicked, startupRan, gameArea, commands, entities, transform,
                 collider, delta, pressed, events, pre, ticks, totalNanos, longTick,
                 overstep, rebounds>>

Next ==
  \/ setup_game_area
  \/ setup_camera
  \/ apply_deferred
  \/ spawn_local_paddle
  \/ spawn_border
  \/ spawn_ball
  \/ BeginTick
  \/ move_paddle
  \/ check_collisions
  \/ accelerate_ball

Spec == Init /\ [][Next]_vars

(***************************************************************************)
(* The program on inputs drawn from bounded sets chosen for one system;    *)
(* every frame runs the three Update systems.                              *)
(***************************************************************************)
\* setup_game_area on surfaces of 40.5 to 1280 units a side
SurfaceHalves == {81, 90, 120, 360, 1200, 1600, 1707, 2560}
SurfaceOf(w2, h2) ==
  [width |-> F32Div(F32FromNat(w2), F32Two), height |-> F32Div(F32FromNat(h2), F32Two)]
Surfaces == {SurfaceOf(w2, h2) : w2 \in SurfaceHalves, h2 \in SurfaceHalves}

InitGeometry == InitWith(Surfaces)
SpecGeometry ==
  InitGeometry /\ [][setup_game_area \/ setup_camera \/ apply_deferred]_vars

\* frames for move_paddle: the 760x560 game area of an 800x600 window
\* (max_y = 250), the Paddle starting near and at the limits
MaxPaddleTicks == 2
PaddleStarts ==
  {F32Zero, F32FromNat(249), F32Neg(F32FromNat(249)), F32FromNat(250),
   F32Neg(F32FromNat(250)), F32FromNat(100)}

\* a 16 ms frame and 0.1 s besides the deltas above
PaddleDeltas == {0, 16000000, 100000000, 250000000}

InitPaddle == \E y \in PaddleStarts : AfterStartup(WindowOf(800, 600), y)
PaddleBeginTick ==
  BeginTickWith(UpdateSystems, PaddleDeltas, SUBSET {"Up", "Down"}, {<<>>},
                MaxPaddleTicks)
NextPaddle ==
  \/ PaddleBeginTick
  \/ move_paddle
  \/ check_collisions
  \/ accelerate_ball
SpecPaddle == InitPaddle /\ [][NextPaddle]_vars

\* frames for accelerate_ball: longer runs of ticks, nothing pressed, no event
MaxTimerTicks == 6
TimerDeltas == {0, 16000000, 50000000, 100000000, 100000001, 250000000}

InitTimer == AfterStartup(WindowOf(1280, 720), F32Zero)
TimerBeginTick ==
  BeginTickWith(UpdateSystems, TimerDeltas, {{}}, {<<>>}, MaxTimerTicks)
NextTimer ==
  \/ TimerBeginTick
  \/ move_paddle
  \/ check_collisions
  \/ accelerate_ball
SpecTimer == InitTimer /\ [][NextTimer]_vars

\* Startup and one tick on any surface: below 100 units of height (max_y
\* negative), at exactly 100 (max_y = 0), above, and with no primary window.
MaxSurfaceTicks == 1
AnySurfaceSizes == {<<90, 90>>, <<1280, 99>>, <<140, 100>>, <<800, 600>>}
AnySurfaces == {WindowOf(wh[1], wh[2]) : wh \in AnySurfaceSizes}
SurfaceDeltas == {0, 16000000}
SurfaceBatches == {<<>>, <<BallBall>>, <<PaddleBorder>>}

InitAnySurface == InitWithWindowSets({{}} \cup {{w} : w \in AnySurfaces})
SurfaceBeginTick ==
  BeginTickWith(UpdateSystems, SurfaceDeltas, SUBSET {"Up", "Down"}, SurfaceBatches, MaxSurfaceTicks)
NextAnySurface ==
  \/ setup_game_area
  \/ setup_camera
  \/ apply_deferred
  \/ spawn_local_paddle
  \/ spawn_border
  \/ spawn_ball
  \/ SurfaceBeginTick
  \/ move_paddle
  \/ check_collisions
  \/ accelerate_ball
SpecAnySurface == InitAnySurface /\ [][NextAnySurface]_vars

(***************************************************************************)
(* Properties.                                                             *)
(***************************************************************************)
Abs(n) == IF n < 0 THEN -n ELSE n

NamesBall(ev) == entities[ev[1]].kind = "Ball" \/ entities[ev[2]].kind = "Ball"
CountNamingBall(evs) == Cardinality({i \in 1..Len(evs) : NamesBall(evs[i])})

CheckCollisionsStep ==
  "check_collisions" \in pending /\ "check_collisions" \notin pending'
AccelerateBallStep ==
  "accelerate_ball" \in pending /\ "accelerate_ball" \notin pending'
MovePaddleStep == "move_paddle" \in pending /\ "move_paddle" \notin pending'

\* C1: when check_collisions drains N events naming the Ball, the Ball's
\* horizontal velocity changes sign exactly when N is odd, and the vertical
\* velocity is unchanged.
C1_CollisionParity ==
  [][CheckCollisionsStep =>
       \A b \in OfKind("Ball") :
         /\ velocity'[b].x = IF CountNamingBall(events) % 2 = 1
                             THEN F32Neg(velocity[b].x) ELSE velocity[b].x
         /\ velocity'[b].y = velocity[b].y]_vars

\* C2: a single event naming the Ball and a Border, or the Paddle and the
\* Ball, inverts the Ball's horizontal velocity once, the Ball in either
\* place of the pair: from (200, 200) it gives (-200, 200).
C2_SingleEventInverts ==
  (/\ Running
   /\ ticks > 0
   /\ "check_collisions" \notin pending
   /\ "accelerate_ball" \in pending
   /\ Len(pre.events) = 1
   /\ NamesBall(pre.events[1]))
  => \A b \in OfKind("Ball") :
       velocity[b] = [x |-> F32Neg(pre.velocity[b].x), y |-> pre.velocity[b].y]

\* C3: in every state the Paddle's vertical position lies in [-maxY, maxY],
\* with maxY = height / 2 - 30, from its spawn at y = 0 on.
C3_PaddleWithinClamp ==
  \A p \in OfKind("Paddle") :
    LET maxY == F32Sub(F32Div(gameArea[1].height, F32Two), F32FromNat(30))
    IN F32Le(F32Neg(maxY), transform[p].y) /\ F32Le(transform[p].y, maxY)

\* C4 as stated: after any run of ticks summing to T, the number of firings
\* is within 1 of floor(T / 0.1 s).
C4_FiringsTrackElapsed ==
  "accelerate_ball" \notin pending
  => Abs(firings - totalNanos \div 100000000) <= 1

\* C4, amended: when no tick delta exceeds the timer's period, the number of
\* firings is floor(T / period), which is within 1 of floor(T / 0.1 s).
C4_FiringsTrackShortTicks ==
  ("accelerate_ball" \notin pending /\ ~longTick)
  => /\ firings = totalNanos \div TimerDurationNanos
     /\ Abs(firings - totalNanos \div 100000000) <= 1

\* ticks of different lengths, none above the period, and several firings
C4_SeveralShortTicks ==
  /\ "accelerate_ball" \notin pending
  /\ ~longTick
  /\ ticks >= 4
  /\ firings >= 2
  /\ timer.elapsed > 0
  /\ totalNanos % 50000000 # 0

\* C5: accelerate_ball advances the timer by the tick delta and multiplies
\* the velocity once when the accumulated time reached one or more periods,
\* not at all otherwise; the time beyond the completed periods stays in the
\* accumulator.
C5_FiresOncePerTick ==
  [][AccelerateBallStep =>
       LET sum     == timer.elapsed + delta
           periods == sum \div TimerDurationNanos
       IN /\ timer'.elapsed = sum - periods * TimerDurationNanos
          /\ firings' = firings + (IF periods >= 1 THEN 1 ELSE 0)
          /\ \A b \in OfKind("Ball") :
               velocity'[b] =
                 IF periods >= 1
                 THEN [x |-> F32Mul(velocity[b].x, ACCELERATION_FACTOR),
                       y |-> F32Mul(velocity[b].y, ACCELERATION_FACTOR)]
                 ELSE velocity[b]]_vars

\* a tick in which two periods elapsed: one firing, the excess kept
C5_SeveralPeriodsOneFiring ==
  /\ Running
  /\ ticks > 0
  /\ "accelerate_ball" \notin pending
  /\ timer.times_finished_this_tick >= 2
  /\ timer.elapsed > 0
  /\ firings = 1

\* Bounds on v * 2^16, for |v| < 2^14: <<floor, ceiling>>
Fix16(v) ==
  LET sh  == -16 - v.e
      lo  == IF sh <= 0 THEN v.m * 2^(-sh)
             ELSE IF sh >= 25 THEN 0 ELSE v.m \div 2^sh
      hi  == IF sh <= 0 THEN lo
             ELSE IF sh >= 25 THEN (IF v.m = 0 THEN 0 ELSE 1)
             ELSE IF v.m % 2^sh = 0 THEN lo ELSE lo + 1
  IN IF v.s = 1 THEN <<lo, hi>> ELSE <<-hi, -lo>>

\* the f32 nearest to 1.001: 8396997 * 2^-23
F32Nearest1001 == [s |-> 1, m |-> 8396997, e |-> -23]

\* 200 multiplied k times by the f32 nearest to 1.001, rounded each time
RECURSIVE ScaledF32(_)
ScaledF32(k) ==
  IF k = 0 THEN F32FromNat(200) ELSE F32Mul(ScaledF32(k - 1), F32Nearest1001)

\* Bounds on 200 * 1.001^k * 2^16 in exact arithmetic: <<lower, upper>>
RECURSIVE Scaled1001(_)
Scaled1001(k) ==
  IF k = 0 THEN <<200 * 65536, 200 * 65536>>
  ELSE LET p == Scaled1001(k - 1)
       IN <<p[1] + p[1] \div 1000, p[2] + (p[2] + 999) \div 1000>>

\* C6: after k firings and no flip both components of the Ball's velocity are
\* 200 scaled k times by the same factor 1.001 (each product rounded to f32,
\* so within 2k units of 2^-16 of 200 * 1.001^k), positive as at the start;
\* a tick that does not fire leaves the velocity as it was.
C6_VelocityScaledPerFiring ==
  \A b \in OfKind("Ball") :
    /\ F32Abs(velocity[b].x) = F32Abs(velocity[b].y)
    /\ F32Abs(velocity[b].x) = ScaledF32(firings)
    /\ rebounds = 0 => (velocity[b].x.s = 1 /\ velocity[b].y.s = 1)
    /\ Scaled1001(firings)[1] - 2 * firings <= Fix16(F32Abs(velocity[b].x))[1]
    /\ Fix16(F32Abs(velocity[b].x))[2] <= Scaled1001(firings)[2] + 2 * firings

\* three firings, then a tick that did not fire
C6_ThreeFirings ==
  /\ firings = 3
  /\ ticks > 3
  /\ "accelerate_ball" \notin pending
  /\ ~JustFinished(timer)
  /\ velocity["ball"].x # F32FromNat(200)

\* One system applied to a snapshot [transform, velocity, timer, events,
\* panicked] with the current tick's delta and pressed actions; after a panic
\* no system runs.
SystemFn(name, st) ==
  CASE st.panicked -> st
    [] name = "move_paddle" ->
         IF OfKind("Paddle") # {}
            /\ ClampPanics(F32Neg(MaxY(gameArea[1])), MaxY(gameArea[1]))
         THEN [st EXCEPT !.panicked = TRUE]
         ELSE [st EXCEPT !.transform = MovePaddleFn(@, pressed, delta, gameArea[1])]
    [] name = "check_collisions" ->
         [st EXCEPT !.velocity = CheckCollisionsFn(@, st.events), !.events = <<>>]
    [] name = "accelerate_ball" ->
         [st EXCEPT !.timer = TimerTick(@, delta),
                    !.velocity = AccelerateBallFn(@, TimerTick(st.timer, delta))]

RunOrder(order, st) ==
  SystemFn(order[3], SystemFn(order[2], SystemFn(order[1], st)))

Orders ==
  {o \in [1..3 -> UpdateSystems] : {o[1], o[2], o[3]} = UpdateSystems}

\* C7: when a tick has run its three systems, the state is the one every
\* one of the six orders of move_paddle, check_collisions and accelerate_ball
\* produces from the state and inputs the tick began with.
C7_OrderIndependent ==
  (Running /\ ticks > 0 /\ pending = {})
  => \A o \in Orders : RunOrder(o, pre) = Snapshot

\* a finished tick in which check_collisions flipped the velocity,
\* accelerate_ball scaled it and move_paddle moved the Paddle
C7_FlipAndScaleInOneTick ==
  /\ Running
  /\ ticks > 0
  /\ pending = {}
  /\ JustFinished(timer)
  /\ velocity["ball"].x.s = -pre.velocity["ball"].x.s
  /\ velocity["ball"].x.m # pre.velocity["ball"].x.m
  /\ velocity["ball"].y.m # pre.velocity["ball"].y.m
  /\ transform["paddle"].y # pre.transform["paddle"].y

\* Bounds on dt seconds * 300 * 2^16 in exact arithmetic: <<floor, ceiling>>
TravelFix16(dt) ==
  LET whole == (dt \div 78125) * 1536
      part  == (dt % 78125) * 1536
  IN <<whole + part \div 78125,
       whole + part \div 78125 + (IF part % 78125 = 0 THEN 0 ELSE 1)>>

ClampInt(n, lo, hi) == IF n < lo THEN lo ELSE IF n > hi THEN hi ELSE n

DirectionOf(acts) ==
  IF "Up" \in acts /\ "Down" \notin acts THEN 1
  ELSE IF "Down" \in acts /\ "Up" \notin acts THEN -1 ELSE 0

\* C8: move_paddle sets y to clamp(y + direction * dt * 300, -maxY, maxY), to
\* within 4 units of 2^-16 for the f32 roundings, with direction +1 for Up
\* alone, -1 for Down alone and 0 for both or neither, which leaves y as it
\* was.  With maxY = 250: from 0, Up and 16 ms give the f32 nearest to 4.8;
\* from 249, Up and 0.1 s give 250.
C8_MovePaddleStep ==
  [][MovePaddleStep =>
       LET y    == transform["paddle"].y
           yNew == transform'["paddle"].y
           maxY == Fix16(F32Sub(F32Div(gameArea[1].height, F32Two), F32FromNat(30)))[1]
           dir  == DirectionOf(pressed)
           trav == TravelFix16(delta)
           lo   == ClampInt(Fix16(y)[1] + (IF dir = 1 THEN trav[1]
                                           ELSE IF dir = -1 THEN -trav[2] ELSE 0),
                            -maxY, maxY)
           hi   == ClampInt(Fix16(y)[2] + (IF dir = 1 THEN trav[2]
                                           ELSE IF dir = -1 THEN -trav[1] ELSE 0),
                            -maxY, maxY)
       IN /\ lo - 4 <= Fix16(yNew)[1]
          /\ Fix16(yNew)[2] <= hi + 4
          /\ dir = 0 => yNew = y
          /\ (y = F32Zero /\ pressed = {"Up"} /\ delta = 16000000)
               => yNew = F32Div(F32FromNat(48), F32FromNat(10))
          /\ (y = F32FromNat(249) /\ pressed = {"Up"} /\ delta = 100000000)
               => yNew = F32FromNat(250)
          /\ transform'["paddle"].x = transform["paddle"].x]_vars

\* the Paddle at 249 with Up held for 0.1 s: moved to 250
C8_ClampedExample ==
  /\ ticks > 0
  /\ "move_paddle" \notin pending
  /\ MaxY(gameArea[1]) = F32FromNat(250)
  /\ pre.transform["paddle"].y = F32FromNat(249)
  /\ pressed = {"Up"}
  /\ delta = 100000000
  /\ transform["paddle"].y = F32FromNat(250)

\* C9: a surface of W x H, both above 40, gives the game area
\* (W - 40, H - 40), which stays as stored.
C9_GameAreaIsSurfaceLess40 ==
  gameArea # <<>>
  => \E w2 \in SurfaceHalves, h2 \in SurfaceHalves :
       /\ primaryWindow = {SurfaceOf(w2, h2)}
       /\ gameArea[1] = [width  |-> F32Div(F32FromNat(w2 - 80), F32Two),
                         height |-> F32Div(F32FromNat(h2 - 80), F32Two)]

\* an 800x600 surface has given the 760x560 game area
C9_Area760x560 ==
  /\ "setup_game_area" \in startupRan
  /\ primaryWindow = {WindowOf(800, 600)}
  /\ gameArea = <<[width |-> F32FromNat(760), height |-> F32FromNat(560)]>>

\* C10: once Startup has run there are one Paddle, one Ball and four
\* Borders, one for each of the sides Left, Right, Top and Bottom, in every
\* later state.
C10_EntityCounts ==
  Running
  => /\ Cardinality(OfKind("Paddle")) = 1
     /\ Cardinality(OfKind("Ball")) = 1
     /\ Cardinality(OfKind("Border")) = 4
     /\ \A side \in {"Left", "Right", "Top", "Bottom"} :
          Cardinality({b \in OfKind("Border") : entities[b].side = side}) = 1

\* two ticks have run since Startup and the entities are the seven spawned
C10_AfterTicks ==
  /\ Running
  /\ ticks >= 2
  /\ pending = {}
  /\ Cardinality(DOMAIN entities) = 7
  /\ Cardinality(OfKind("Border")) = 4

\* C11: once Startup has succeeded, whatever the surface size, no Update
\* system panics, and the bounds move_paddle hands to clamp satisfy
\* -maxY <= maxY.
C11_UpdateNeverPanics ==
  StartupDone =>
    /\ ~panicked
    /\ F32Le(F32Neg(MaxY(gameArea[1])), MaxY(gameArea[1]))

\* C12: with no primary window, setup_game_area panics and the app is gone:
\* no GameArea is stored, no Border, Paddle or Ball is spawned, and no Update
\* system runs.
C12_NoWindowAborts ==
  primaryWindow = {} =>
    /\ "setup_game_area" \in startupRan => panicked
    /\ gameArea = <<>>
    /\ OfKind("Border") \cup OfKind("Paddle") \cup OfKind("Ball") = {}
    /\ DOMAIN commands \subseteq {"setup_camera"}
    /\ startupRan \subseteq {"setup_game_area", "setup_camera"}
    /\ ticks = 0
    /\ pending = {}

\* setup_game_area has run without a primary window, after setup_camera
C12_PanickedAtStartup ==
  /\ primaryWindow = {}
  /\ startupRan = {"setup_game_area", "setup_camera"}
  /\ panicked

\* |a|
\* C13: a step of the game logic, the Update systems, changes |vx| or |vy| of
\* the Ball only when it is the step of accelerate_ball and the timer just
\* finished; a step of check_collisions leaves |vx| and vy as they were.
C13_OnlyAccelerationChangesSpeed ==
  [][\A b \in DOMAIN velocity \cap DOMAIN velocity' :
       /\ (/\ pending # {}
           /\ \/ F32Abs(velocity'[b].x) # F32Abs(velocity[b].x)
              \/ F32Abs(velocity'[b].y) # F32Abs(velocity[b].y))
          => (AccelerateBallStep /\ JustFinished(timer'))
       /\ CheckCollisionsStep
          => /\ F32Abs(velocity'[b].x) = F32Abs(velocity[b].x)
             /\ velocity'[b].y = velocity[b].y]_vars

\* a tick in which check_collisions inverted vx and the timer did not finish
C13_FlippedNotScaled ==
  /\ Running
  /\ ticks > 0
  /\ pending = {}
  /\ ~JustFinished(timer)
  /\ velocity["ball"].x = F32Neg(pre.velocity["ball"].x)
  /\ velocity["ball"].y = pre.velocity["ball"].y

Spawners == {"spawn_local_paddle", "spawn_border", "spawn_ball"}

\* C14: a spawner runs only after setup_game_area, with the GameArea
\* resource present, and runs once: it queues its spawns in the step that
\* marks it as run, entities appear only when a sync point applies queued
\* commands, and each spawner's entities are there once when its commands
\* have been applied.
C14_SpawnersAfterGeometry ==
  [][/\ \A s \in Spawners :
          /\ (s \notin startupRan /\ s \in startupRan')
             => /\ "setup_game_area" \in startupRan
                /\ gameArea # <<>>
                /\ ~panicked'
                /\ s \notin DOMAIN commands /\ s \in DOMAIN commands'
          /\ (s \in DOMAIN commands' /\ s \notin DOMAIN commands)
             => (s \notin startupRan /\ s \in startupRan')
     /\ entities' # entities => (commands # EmptyMap /\ commands' = EmptyMap)
     /\ LET applied(s) == s \in startupRan /\ s \notin DOMAIN commands
        IN /\ Cardinality(OfKind("Paddle"))
                = (IF applied("spawn_local_paddle") THEN 1 ELSE 0)
           /\ Cardinality(OfKind("Border"))
                = (IF applied("spawn_border") THEN 4 ELSE 0)
           /\ Cardinality(OfKind("Ball"))
                = (IF applied("spawn_ball") THEN 1 ELSE 0)]_vars

\* the three spawners have run and a tick has begun
C14_AllSpawned ==
  /\ Spawners \subseteq startupRan
  /\ gameArea # <<>>
  /\ ~panicked
  /\ ticks = 1
  /\ pending = UpdateSystems

\* The rectangles of colliders p and b, centred at their translations,
\* share interior points.
RectanglesOverlap(p, b) ==
  /\ F32Lt(F32Abs(F32Sub(transform[p].x, transform[b].x)),
           F32Div(F32Add(collider[p].a, collider[b].a), F32Two))
  /\ F32Lt(F32Abs(F32Sub(transform[p].y, transform[b].y)),
           F32Div(F32Add(collider[p].b, collider[b].b), F32Two))

\* C15: at every position the Paddle reaches, its rectangle overlaps neither
\* the Top border's rectangle nor the Bottom border's.
C15_PaddleClearOfHorizontalBorders ==
  \A p \in OfKind("Paddle"), b \in OfKind("Border") :
    entities[b].side \in {"Top", "Bottom"} => ~RectanglesOverlap(p, b)

\* C16: neither component of the Ball's velocity is ever zero.
C16_VelocityNeverZero ==
  \A b \in OfKind("Ball") : velocity[b].x.m # 0 /\ velocity[b].y.m # 0

\* the velocity has been inverted and scaled
C16_FlippedAndScaled ==
  /\ Running
  /\ ticks = MaxTicks
  /\ pending = {}
  /\ firings > 0
  /\ velocity["ball"].x.s = -1
  /\ velocity["ball"].x.s = -pre.velocity["ball"].x.s
  /\ F32Lt(InitialVelocity.y, velocity["ball"].y)

\* C17: the GameArea, once written, never changes, it is written only when
\* the command of setup_game_area is applied, before any tick, and the
\* Paddle's x stays -width / 2 + 20.
C17_GeometryAndPaddleXFixed ==
  [][/\ gameArea # <<>> => gameArea' = gameArea
     /\ gameArea' # gameArea
        => /\ "setup_game_area" \in DOMAIN commands
           /\ commands' = EmptyMap
           /\ ticks = 0
     /\ \A p \in OfKind("Paddle") :
          /\ transform'[p].x = transform[p].x
          /\ transform[p].x
               = F32Add(F32Neg(F32Div(gameArea[1].width, F32Two)), F32FromNat(20))]_vars

\* move_paddle has moved the Paddle in two ticks
C17_PaddleMovedTwice ==
  /\ Running
  /\ ticks = 2
  /\ pending = {}
  /\ transform["paddle"].y # pre.transform["paddle"].y
  /\ pre.transform["paddle"].y # F32Zero

\* C18: check_collisions leaves the transforms, the timer and the GameArea
\* alone, and leaves the velocity alone when no event names the Ball.
C18_CheckCollisionsFrame ==
  [][CheckCollisionsStep
     => /\ transform' = transform
        /\ timer' = timer
        /\ gameArea' = gameArea
        /\ (\A i \in 1..Len(events) : ~NamesBall(events[i])) => velocity' = velocity]_vars

\* check_collisions has read a Paddle-Border event, accelerate_ball not run yet
C18_PaddleBorderEventRead ==
  /\ Running
  /\ ticks > 0
  /\ pre.events = <<PaddleBorder>>
  /\ events = <<>>
  /\ "check_collisions" \notin pending
  /\ "accelerate_ball" \in pending
  /\ velocity = pre.velocity

\* C19: after every tick of accelerate_ball the timer's elapsed time is at
\* least 0, below 0.1 s, and the total elapsed time modulo 0.1 s.
C19_ElapsedBelowTenthSecond ==
  "accelerate_ball" \notin pending
  => /\ 0 <= timer.elapsed
     /\ timer.elapsed < 100000000
     /\ timer.elapsed = totalNanos % 100000000

\* C19, amended: after every tick of accelerate_ball the timer's elapsed time
\* is at least 0, below the timer's duration, and the total elapsed time
\* modulo that duration.
C19_ElapsedModuloDuration ==
  "accelerate_ball" \notin pending
  => /\ 0 <= timer.elapsed
     /\ timer.elapsed < TimerDurationNanos
     /\ timer.elapsed = totalNanos % TimerDurationNanos

\* the timer has wrapped several times and holds a remainder
C19_WrappedWithRemainder ==
  /\ "accelerate_ball" \notin pending
  /\ firings >= 3
  /\ totalNanos > 3 * TimerDurationNanos
  /\ timer.elapsed > 0
  /\ JustFinished(timer)

=============================================================================
